---- MODULE Spec2Model ----
(***************************************************************************)
(* Model of the flight-data ingestion and validation pipeline              *)
(* (src/data_parser.py): discover_subsystems and load_and_validate_data.   *)
(*                                                                         *)
(* A CSV file is a header (sequence of column names) and a sequence of     *)
(* rows of raw text cells.  A DataFrame is a sequence of columns, a dtype  *)
(* per column and a sequence of rows that keep their index label, so that  *)
(* a row of the returned table can be traced to its input row.  The        *)
(* library calls are modelled with the semantics of pandas 1.x/2.x, the    *)
(* versions for which the in-place chained replace of the source takes     *)
(* effect: read_csv infers float64 for a column whose cells are all        *)
(* numeric or empty and object otherwise, to_datetime and to_numeric with  *)
(* errors='coerce' map an unparseable cell to NaT / NaN.                   *)
(*                                                                         *)
(* The inputs are the unreadable sources and the files of at most MaxRows  *)
(* rows in which at most MaxAnomalies cells differ from a nominal cell: a  *)
(* Timestamp cell is a date-time, unparseable text or empty, any other     *)
(* cell is a number, the sentinel -999.0, non-numeric text or empty.       *)
(***************************************************************************)
EXTENDS Integers, Sequences, FiniteSets, TLC

\* ---------------------------------------------------------------- bounds
\* Largest number of data rows of an input file.
MaxRows == 2
\* Largest number of cells of an input file that differ from a nominal cell.
MaxAnomalies == 2

\* ------------------------------------------------------ program constants
CORE_COLUMNS ==
  <<"Timestamp", "POS_Latitude_deg", "POS_Longitude_deg", "POS_Altitude_ft">>

\* -999.0; the numbers of the model are the floats with an integral value.
REDACTED_DATA_MARKER == 0 - 999

\* ------------------------------------------------------------- sequences
Range(s) == {s[i] : i \in 1..Len(s)}

RECURSIVE SeqFilterIdx(_, _, _)
\* The subsequence of s at the positions of keep, in the order of s.
SeqFilterIdx(s, keep, i) ==
  IF i > Len(s) THEN <<>>
  ELSE (IF i \in keep THEN <<s[i]>> ELSE <<>>) \o SeqFilterIdx(s, keep, i + 1)

\* ------------------------------------------------------------ cell values
\* A cell of a DataFrame: a Python str, a float, NaN, a Timestamp or NaT.
Str(s) == [k |-> "str", s |-> s, n |-> 0]
Num(n) == [k |-> "float", s |-> "", n |-> n]
NaN == [k |-> "nan", s |-> "", n |-> 0]
Dt(s) == [k |-> "datetime", s |-> s, n |-> 0]
NaT == [k |-> "nat", s |-> "", n |-> 0]

\* pandas.isnull on one cell.
isnull(c) == c.k \in {"nan", "nat"}

\* ------------------------------------------------------- raw text of cells
ValidTimestampText == "2024-01-01 12:00:00"
InvalidTimestampText == "not-a-time"
NumberText == "42.0"
SentinelText == "-999.0"
WordText == "abc"
EmptyText == ""

\* The texts the float parser of read_csv / to_numeric accepts.
IsNumericText(s) == s \in {NumberText, SentinelText}

\* The float a numeric text denotes.
ParseFloat(s) ==
  CASE s = NumberText -> 42
    [] s = SentinelText -> 0 - 999

\* The texts the date-time parser of to_datetime accepts.
IsDatetimeText(s) == s = ValidTimestampText

\* ------------------------------------------------------------ input files
\* The optional columns of the input files.
ExtraColumns == {"GNC_Roll_deg", "PL_GMTI_Status", "COMM_TCDL_Margin_dB"}

\* The headers: the core columns alone or followed by one optional column,
\* and every proper sub-sequence of the core columns.
CoreSubHeaders ==
  {SeqFilterIdx(CORE_COLUMNS, keep, 1) : keep \in SUBSET (1..Len(CORE_COLUMNS))}

Headers ==
  CoreSubHeaders \cup {Append(CORE_COLUMNS, x) : x \in ExtraColumns}

\* The texts a cell of a column is drawn from; the first is its nominal text.
CellTexts(col) ==
  IF col = "Timestamp"
  THEN {ValidTimestampText, InvalidTimestampText, EmptyText}
  ELSE {NumberText, SentinelText, WordText, EmptyText}

NominalText(col) ==
  IF col = "Timestamp" THEN ValidTimestampText ELSE NumberText

AnomalousTexts(col) == CellTexts(col) \ {NominalText(col)}

RECURSIVE SubsetsUpTo(_, _)
\* The subsets of S with at most k elements.
SubsetsUpTo(S, k) ==
  IF k = 0 \/ S = {} THEN {{}}
  ELSE LET x == CHOOSE y \in S : TRUE
       IN SubsetsUpTo(S \ {x}, k)
          \cup {T \cup {x} : T \in SubsetsUpTo(S \ {x}, k - 1)}

\* The file of n rows under a header whose cells at the positions of at hold
\* the anomalous text at gives them, and whose other cells are nominal.
FileWith(header, n, at) ==
  [status |-> "ok",
   header |-> header,
   rows   |-> [i \in 1..n |->
                 [c \in Range(header) |->
                    IF <<i, c>> \in DOMAIN at THEN at[<<i, c>>]
                    ELSE NominalText(c)]]]

\* The ways to give anomalous texts to at most MaxAnomalies cells of a file
\* of n rows under a header: functions from cell positions to texts.
Anomalies(header, n) ==
  UNION {{a \in [S -> {InvalidTimestampText, SentinelText, WordText,
                       EmptyText}] :
            \A p \in S : a[p] \in AnomalousTexts(p[2])}
         : S \in SubsetsUpTo((1..n) \X Range(header), MaxAnomalies)}

\* A path that does not exist, and a stream pandas cannot parse.
MissingFile == [status |-> "missing", header |-> <<>>, rows |-> <<>>]
GarbageFile == [status |-> "garbage", header |-> <<>>, rows |-> <<>>]

\* f is an input of the model: an unreadable source, or a file of at most
\* MaxRows rows with at most MaxAnomalies anomalous cells.
IsInputFile(f) ==
  \/ f \in {MissingFile, GarbageFile}
  \/ \E h \in Headers : \E n \in 0..MaxRows : \E at \in Anomalies(h, n) :
       f = FileWith(h, n, at)

\* ------------------------------------------------------------ DataFrame
\* The frame before anything was read.
NoFrame == [columns |-> <<>>, dtype |-> <<>>, rows |-> <<>>]

\* Python's  col in df.columns.
HasColumn(d, col) == col \in Range(d.columns)

\* pandas skips a line that is blank: the lines of a one-column file whose
\* only cell is empty.
DataLines(f) ==
  SeqFilterIdx(f.rows,
               {i \in 1..Len(f.rows) :
                  ~(Len(f.header) = 1 /\ f.rows[i][f.header[1]] = EmptyText)},
               1)

\* The dtype read_csv infers for a column: float64 when every cell is a
\* number or empty, object when some cell is other text or there is no row.
InferDtype(lines, col) ==
  IF Len(lines) = 0 THEN "object"
  ELSE IF \A i \in 1..Len(lines) :
            lines[i][col] = EmptyText \/ IsNumericText(lines[i][col])
       THEN "float64"
       ELSE "object"

\* The cell read_csv stores for a text under the dtype of its column.
ReadCell(text, dtype) ==
  IF text = EmptyText THEN NaN
  ELSE IF dtype = "float64" THEN Num(ParseFloat(text))
  ELSE Str(text)

\* pd.read_csv on a readable stream; row i gets the index label i - 1.
read_csv(f) ==
  LET lines == DataLines(f)
      dt == [c \in Range(f.header) |-> InferDtype(lines, c)]
  IN [columns |-> f.header,
      dtype   |-> dt,
      rows    |-> [i \in 1..Len(lines) |->
                     [idx   |-> i - 1,
                      cells |-> [c \in Range(f.header) |->
                                   ReadCell(lines[i][c], dt[c])]]]]

\* read_csv raises FileNotFoundError for a path that does not exist.
RaisesFileNotFound(f) == f.status = "missing"

\* read_csv raises another exception for a stream it cannot decode and for
\* a stream without any column (EmptyDataError).
RaisesReadError(f) == f.status = "garbage" \/ (f.status = "ok" /\ f.header = <<>>)

\* The instant n nanoseconds from 1970-01-01 00:00:00, as pandas writes it.
EpochPlusNanoseconds(n) ==
  CASE n = 42 -> "1970-01-01 00:00:00.000000042"
    [] n = 0 - 999 -> "1969-12-31 23:59:59.999999001"

\* pd.to_datetime(errors='coerce') on one cell; a number is read as
\* nanoseconds since 1970-01-01.
to_datetime(c) ==
  CASE c.k = "str" -> IF IsDatetimeText(c.s) THEN Dt(c.s) ELSE NaT
    [] c.k = "float" -> Dt(EpochPlusNanoseconds(c.n))
    [] c.k = "datetime" -> c
    [] OTHER -> NaT

\* pd.to_numeric(errors='coerce') on one cell.
to_numeric(c) ==
  CASE c.k = "str" -> IF IsNumericText(c.s) THEN Num(ParseFloat(c.s)) ELSE NaN
    [] c.k = "float" -> c
    [] OTHER -> NaN

\* df['Timestamp'] = pd.to_datetime(df['Timestamp'], errors='coerce')
ParseTimestamps(d) ==
  [d EXCEPT !.dtype["Timestamp"] = "datetime64[ns]",
            !.rows = [i \in 1..Len(d.rows) |->
                        [d.rows[i] EXCEPT !.cells["Timestamp"] =
                           to_datetime(d.rows[i].cells["Timestamp"])]]]

\* dropna with how='all': drops a row only when all of cols are null.
dropna_all(d, cols) ==
  [d EXCEPT !.rows =
     SeqFilterIdx(d.rows,
                  {i \in 1..Len(d.rows) :
                     \E c \in Range(cols) : ~isnull(d.rows[i].cells[c])},
                  1)]

\* A dropna that returns the rows it keeps in reverse order.
dropna_reversed(d, cols) ==
  LET kept == SeqFilterIdx(d.rows,
                           {i \in 1..Len(d.rows) :
                              \A c \in Range(cols) : ~isnull(d.rows[i].cells[c])},
                           1)
  IN [d EXCEPT !.rows = [i \in 1..Len(kept) |-> kept[Len(kept) + 1 - i]]]

\* df.dropna(subset=cols, inplace=True): the rows without a null in cols,
\* in their order and with their index labels.
dropna(d, cols) ==
  [d EXCEPT !.rows =
     SeqFilterIdx(d.rows,
                  {i \in 1..Len(d.rows) :
                     \A c \in Range(cols) : ~isnull(d.rows[i].cells[c])},
                  1)]

\* df.select_dtypes(include=np.number).columns, in column order.
NumericColumns(d) ==
  SeqFilterIdx(d.columns,
               {j \in 1..Len(d.columns) : d.dtype[d.columns[j]] = "float64"},
               1)

\* (df[col] == REDACTED_DATA_MARKER).any()
HasMarker(d, col) ==
  \E i \in 1..Len(d.rows) : d.rows[i].cells[col] = Num(REDACTED_DATA_MARKER)

\* The redaction loop without its test: every numeric column is listed.
RedactedColumns_all(d) == NumericColumns(d)

\* The numeric columns the redaction loop finds the marker in, in order.
RedactedColumns(d) ==
  LET nc == NumericColumns(d)
  IN SeqFilterIdx(nc, {j \in 1..Len(nc) : HasMarker(d, nc[j])}, 1)

\* Series.replace(REDACTED_DATA_MARKER, np.nan) on one cell.
ReplaceMarker(c) == IF c = Num(REDACTED_DATA_MARKER) THEN NaN ELSE c

\* The frame after the redaction loop.
Redact(d) ==
  LET red == Range(RedactedColumns(d))
  IN [d EXCEPT !.rows =
        [i \in 1..Len(d.rows) |->
           [d.rows[i] EXCEPT !.cells =
              [c \in Range(d.columns) |->
                 IF c \in red THEN ReplaceMarker(d.rows[i].cells[c])
                 ELSE d.rows[i].cells[c]]]]]

\* The columns the coercion loop converts: object columns but Timestamp.
ObjectColumns(d) ==
  {c \in Range(d.columns) : c # "Timestamp" /\ d.dtype[c] = "object"}

\* The frame after the coercion loop.
Coerce(d) ==
  LET obj == ObjectColumns(d)
  IN [d EXCEPT !.dtype = [c \in Range(d.columns) |->
                            IF c \in obj THEN "float64" ELSE d.dtype[c]],
               !.rows =
        [i \in 1..Len(d.rows) |->
           [d.rows[i] EXCEPT !.cells =
              [c \in Range(d.columns) |->
                 IF c \in obj THEN to_numeric(d.rows[i].cells[c])
                 ELSE d.rows[i].cells[c]]]]]

\* ----------------------------------------------------- schema discovery
\* The characters of the column names of the model.
Chars(name) ==
  CASE name = "Timestamp" -> <<"T", "i", "m", "e", "s", "t", "a", "m", "p">>
    [] name = "POS_Latitude_deg" ->
         <<"P", "O", "S", "_", "L", "a", "t", "i", "t", "u", "d", "e", "_",
           "d", "e", "g">>
    [] name = "POS_Longitude_deg" ->
         <<"P", "O", "S", "_", "L", "o", "n", "g", "i", "t", "u", "d", "e",
           "_", "d", "e", "g">>
    [] name = "POS_Altitude_ft" ->
         <<"P", "O", "S", "_", "A", "l", "t", "i", "t", "u", "d", "e", "_",
           "f", "t">>
    [] name = "GNC_Roll_deg" ->
         <<"G", "N", "C", "_", "R", "o", "l", "l", "_", "d", "e", "g">>
    [] name = "PL_GMTI_Status" ->
         <<"P", "L", "_", "G", "M", "T", "I", "_", "S", "t", "a", "t", "u",
           "s">>
    [] name = "COMM_TCDL_Margin_dB" ->
         <<"C", "O", "M", "M", "_", "T", "C", "D", "L", "_", "M", "a", "r",
           "g", "i", "n", "_", "d", "B">>
    [] name = "GNC_Pitch_deg" ->
         <<"G", "N", "C", "_", "P", "i", "t", "c", "h", "_", "d", "e", "g">>
    [] name = "PL_EOIR_Status" ->
         <<"P", "L", "_", "E", "O", "I", "R", "_", "S", "t", "a", "t", "u",
           "s">>
    [] name = "gnc_roll_deg" ->
         <<"g", "n", "c", "_", "r", "o", "l", "l", "_", "d", "e", "g">>
    [] name = "GNC" -> <<"G", "N", "C">>
    [] name = "PL" -> <<"P", "L">>
    [] name = "POS" -> <<"P", "O", "S">>
    [] name = "COMM" -> <<"C", "O", "M", "M">>

\* The characters of the class [A-Z0-9], in code-point order.
UpperDigits ==
  <<"0", "1", "2", "3", "4", "5", "6", "7", "8", "9",
    "A", "B", "C", "D", "E", "F", "G", "H", "I", "J", "K", "L", "M",
    "N", "O", "P", "Q", "R", "S", "T", "U", "V", "W", "X", "Y", "Z">>

Ord(ch) == CHOOSE i \in 1..Len(UpperDigits) : UpperDigits[i] = ch

RECURSIVE RunLength(_, _)
\* The length of the longest run of [A-Z0-9] characters of cs from i.
RunLength(cs, i) ==
  IF i <= Len(cs) /\ cs[i] \in Range(UpperDigits)
  THEN 1 + RunLength(cs, i + 1)
  ELSE 0

\* re.compile(r'^([A-Z0-9]+)_').match(col): <<>> for no match, else
\* <<group 1>> as a sequence of characters.
prefix_pattern_match(col) ==
  LET cs == Chars(col)
      n == RunLength(cs, 1)
  IN IF n >= 1 /\ n < Len(cs) /\ cs[n + 1] = "_"
     THEN <<SubSeq(cs, 1, n)>>
     ELSE <<>>

\* A test for the first letter only.
StartsWithP(p) == Len(p) >= 1 /\ p[1] = "P"

\* prefix.startswith('PL')
StartsWithPL(p) == Len(p) >= 2 /\ p[1] = "P" /\ p[2] = "L"

RECURSIVE LexLess(_, _)
\* Python's  a < b  on strings of [A-Z0-9] characters.
LexLess(a, b) ==
  IF Len(b) = 0 THEN FALSE
  ELSE IF Len(a) = 0 THEN TRUE
  ELSE IF a[1] # b[1] THEN Ord(a[1]) < Ord(b[1])
  ELSE LexLess(Tail(a), Tail(b))

RECURSIVE sorted_reverse(_)
\* The strings of a set in descending order.
sorted_reverse(S) ==
  IF S = {} THEN <<>>
  ELSE LET m == CHOOSE x \in S : \A y \in S \ {x} : LexLess(y, x)
       IN <<m>> \o sorted_reverse(S \ {m})

RECURSIVE sorted(_)
\* sorted(list(S)) for a set of strings.
sorted(S) ==
  IF S = {} THEN <<>>
  ELSE LET m == CHOOSE x \in S : \A y \in S \ {x} : LexLess(x, y)
       IN <<m>> \o sorted(S \ {m})

RECURSIVE Join(_)
\* The string of a sequence of characters.
Join(cs) == IF cs = <<>> THEN "" ELSE cs[1] \o Join(Tail(cs))

\* The prefixes of the matching columns, as sets of character sequences.
Prefixes(df_columns) ==
  {prefix_pattern_match(col)[1] :
     col \in {c \in Range(df_columns) : prefix_pattern_match(c) # <<>>}}

discover_subsystems(df_columns) ==
  LET subsystems == {p \in Prefixes(df_columns) : ~StartsWithPL(p)}
      payloads == {p \in Prefixes(df_columns) : StartsWithPL(p)}
      ss == sorted(subsystems)
      ps == sorted(payloads)
  IN <<[i \in 1..Len(ss) |-> Join(ss[i])], [i \in 1..Len(ps) |-> Join(ps[i])]>>

\* ---------------------------------------------------------------- report
\* A warning string: its fixed text, the count and the column list
\* formatted into it.
Warning(msg, n, cols) == [msg |-> msg, n |-> n, cols |-> cols]

FileNotFoundWarning == Warning("File not found", 0, <<>>)
ReadFailedWarning == Warning("Failed to read file", 0, <<>>)
MissingColumnsWarning(cols) ==
  Warning("Data is missing essential columns", 0, cols)
InvalidTimestampWarning ==
  Warning("Some timestamps were invalid and have been removed.", 0, <<>>)
DroppedRowsWarning(n) ==
  Warning("Dropped rows due to missing core data.", n, <<>>)

\* A report that starts with status success.
NewReport_success ==
  [status              |-> "success",
   warnings            |-> <<>>,
   subsystems_found    |-> <<>>,
   payloads_found      |-> <<>>,
   redacted_cols_found |-> <<>>]

\* The report dictionary load_and_validate_data starts with.
NewReport ==
  [status              |-> "failure",
   warnings            |-> <<>>,
   subsystems_found    |-> <<>>,
   payloads_found      |-> <<>>,
   redacted_cols_found |-> <<>>]

\* The search for missing core columns stopping at the first one.
missing_core_first(d) ==
  LET all == SeqFilterIdx(CORE_COLUMNS,
                          {j \in 1..Len(CORE_COLUMNS) :
                             ~HasColumn(d, CORE_COLUMNS[j])},
                          1)
  IN IF all = <<>> THEN <<>> ELSE <<all[1]>>

\* [col for col in CORE_COLUMNS if col not in df.columns]
missing_core(d) ==
  SeqFilterIdx(CORE_COLUMNS,
               {j \in 1..Len(CORE_COLUMNS) : ~HasColumn(d, CORE_COLUMNS[j])},
               1)

\* The lines the final loop prints: one per key of the report whose value
\* is truthy, between the two rulers.
ReportKeys ==
  <<"status", "warnings", "subsystems_found", "payloads_found",
    "redacted_cols_found">>

Truthy(r, key) ==
  CASE key = "status" -> r.status # ""
    [] key = "warnings" -> r.warnings # <<>>
    [] key = "subsystems_found" -> r.subsystems_found # <<>>
    [] key = "payloads_found" -> r.payloads_found # <<>>
    [] key = "redacted_cols_found" -> r.redacted_cols_found # <<>>

PrintedLines(r) ==
  <<"--- Data Parser Report ---">>
  \o SeqFilterIdx(ReportKeys,
                  {j \in 1..Len(ReportKeys) : Truthy(r, ReportKeys[j])}, 1)
  \o <<"--------------------------">>

\* The writes of the print calls of a sequence of lines: print(x) writes x,
\* then the newline.
Writes(lines) ==
  [i \in 1..(2 * Len(lines)) |->
     IF i % 2 = 1 THEN lines[(i + 1) \div 2] ELSE "\n"]

\* ------------------------------------------------- the function as a whole
\* load_and_validate_data(filepath) run from entry to return with standard
\* output open: the returned table (<<>> for None), the report and the
\* writes made on standard output.
load_and_validate_data(filepath) ==
  IF RaisesFileNotFound(filepath)
  THEN [table |-> <<>>,
        report |-> [NewReport EXCEPT !.warnings = <<FileNotFoundWarning>>],
        printed |-> <<>>]
  ELSE IF RaisesReadError(filepath)
  THEN [table |-> <<>>,
        report |-> [NewReport EXCEPT !.warnings = <<ReadFailedWarning>>],
        printed |-> <<>>]
  ELSE
    LET d0 == read_csv(filepath)
    IN IF missing_core(d0) # <<>>
       THEN [table |-> <<>>,
             report |-> [NewReport EXCEPT
                           !.warnings = <<MissingColumnsWarning(missing_core(d0))>>],
             printed |-> <<>>]
       ELSE
         LET parsed == ParseTimestamps(d0)
             anynull == \E i \in 1..Len(parsed.rows) :
                           isnull(parsed.rows[i].cells["Timestamp"])
             d1 == IF anynull THEN dropna(parsed, <<"Timestamp">>) ELSE parsed
             w1 == IF anynull THEN <<InvalidTimestampWarning>> ELSE <<>>
             d3 == Coerce(Redact(d1))
             d4 == dropna(d3, CORE_COLUMNS)
             w2 == IF Len(d3.rows) > Len(d4.rows)
                   THEN <<DroppedRowsWarning(Len(d3.rows) - Len(d4.rows))>>
                   ELSE <<>>
             found == discover_subsystems(d4.columns)
             r == [status              |-> "success",
                   warnings            |-> w1 \o w2,
                   subsystems_found    |-> found[1],
                   payloads_found      |-> found[2],
                   redacted_cols_found |-> RedactedColumns(d1)]
         IN [table |-> <<d4>>, report |-> r, printed |-> Writes(PrintedLines(r))]

\* ------------------------------------------------------------------ state
\* file   : the input of this invocation
\* pc     : the position of load_and_validate_data
\* df     : the local DataFrame
\* report : the report dictionary
\* table  : the returned table: <<>> for None (and before the return),
\*          <<df>> for a returned DataFrame
\* rows_before_drop, rows_after_drop : the locals of step 4
\* stdout : the lines printed so far
\* raised : the exceptions that left load_and_validate_data uncaught
\* prior  : <<>>, or <<n>> when the input is the re-serialized table of n
\*          rows of the preceding successful validation
\* calls  : the number of invocations started
\* d_columns, d_found : the argument and the result of a direct call of
\*          discover_subsystems
\* history : the input, the table and the report of every invocation that
\*          returned before the current one
\* other  : the locals of a second invocation whose steps interleave with
\*          those of this one, while it is not the one running
\* caller, store, self_df : the program that made the last invocation, the
\*          dataframe-store of each web dashboard and the self.df of the
\*          desktop window (<<>> for unset / None)
\* upload_status : the status line the caller shows: "", "Loaded", "error"
\* controls .. stopped : the simulation controls of the web dashboard
\* to_write : the writes of lines 92-96 this invocation has still to make
VARIABLES file, pc, df, report, table, rows_before_drop, rows_after_drop,
          to_write, stdout, raised, prior, calls, d_columns, d_found, history,
          other, caller, store, self_df, upload_status,
          controls, is_disabled, btn_label, slider_val, slider_max, speed,
          n_intervals, pending, at_end_on_play, stopped

vars ==
  <<file, pc, df, report, table, rows_before_drop, rows_after_drop, to_write,
    stdout,
    raised, prior, calls, d_columns, d_found, history,
    other, caller, store, self_df, upload_status,
    controls, is_disabled, btn_label, slider_val, slider_max, speed,
    n_intervals, pending, at_end_on_play, stopped>>

\* The variables of the programs that call the pipeline.
hosts == <<other, caller, store, self_df, upload_status>>

\* The variables of the simulation controls.
sim ==
  <<controls, is_disabled, btn_label, slider_val, slider_max, speed,
    n_intervals, pending, at_end_on_play, stopped>>

\* The variables no step of one invocation of the pipeline writes, but the
\* step an exception leaves it at.
outside == <<prior, calls, d_columns, d_found, history, hosts, sim>>

\* The two web dashboards.
WebApps == {"app", "generate_data"}

\* No second invocation.
NoInvocation ==
  [file |-> MissingFile, pc |-> "none", df |-> NoFrame, report |-> NewReport,
   table |-> <<>>, rows_before_drop |-> 0, rows_after_drop |-> 0,
   to_write |-> <<>>, caller |-> ""]

\* The callers before any file was processed.
InitHosts ==
  /\ other = NoInvocation
  /\ caller = ""
  /\ store = [a \in WebApps |-> <<>>]
  /\ self_df = <<>>
  /\ upload_status = ""

\* app.py lines 40-41 and 71: the layout before any upload; the interval is
\* disabled and the simulation card is empty.
InitLayout ==
  /\ controls = FALSE
  /\ is_disabled = TRUE
  /\ btn_label = ""
  /\ slider_val = 0
  /\ slider_max = 0
  /\ speed = 0
  /\ n_intervals = 0
  /\ pending = {}
  /\ at_end_on_play = FALSE
  /\ stopped = FALSE

Init ==
  /\ IsInputFile(file)
  /\ pc = "read"
  /\ df = NoFrame
  /\ report = NewReport
  /\ table = <<>>
  /\ rows_before_drop = 0
  /\ rows_after_drop = 0
  /\ to_write = <<>>
  /\ stdout = <<>>
  /\ raised = <<>>
  /\ prior = <<>>
  /\ calls = 1
  /\ d_columns = <<>>
  /\ d_found = <<>>
  /\ history = <<>>
  /\ InitHosts
  /\ InitLayout

\* A return of None that records its warning twice.
ReturnNone_twice(w) ==
  /\ report' = [report EXCEPT !.warnings = Append(Append(@, w), w)]
  /\ table' = <<>>
  /\ pc' = "done"

\* return None, report
ReturnNone(w) ==
  /\ report' = [report EXCEPT !.warnings = Append(@, w)]
  /\ table' = <<>>
  /\ pc' = "done"

\* lines 47-48: df = pd.read_csv(filepath)
ReadCsv ==
  /\ pc = "read"
  /\ ~RaisesFileNotFound(file) /\ ~RaisesReadError(file)
  /\ df' = read_csv(file)
  /\ pc' = "core"
  /\ UNCHANGED <<file, report, table, rows_before_drop, rows_after_drop, stdout>>
  /\ UNCHANGED <<raised, to_write, outside>>

\* lines 49-51: except FileNotFoundError
ReadCsvFileNotFound ==
  /\ pc = "read"
  /\ RaisesFileNotFound(file)
  /\ ReturnNone(FileNotFoundWarning)
  /\ UNCHANGED <<file, df, rows_before_drop, rows_after_drop, stdout>>
  /\ UNCHANGED <<raised, to_write, outside>>

\* lines 52-54: except Exception
ReadCsvException ==
  /\ pc = "read"
  /\ RaisesReadError(file)
  /\ ReturnNone(ReadFailedWarning)
  /\ UNCHANGED <<file, df, rows_before_drop, rows_after_drop, stdout>>
  /\ UNCHANGED <<raised, to_write, outside>>

\* lines 56-60: Validation 1, core columns
ValidateCoreColumns ==
  /\ pc = "core"
  /\ IF missing_core(df) # <<>>
     THEN ReturnNone(MissingColumnsWarning(missing_core(df)))
     ELSE /\ pc' = "timestamp"
          /\ UNCHANGED <<report, table>>
  /\ UNCHANGED <<file, df, rows_before_drop, rows_after_drop, stdout>>
  /\ UNCHANGED <<raised, to_write, outside>>

\* Step 1 recording one warning per row with an invalid timestamp.
HandleTimestamp_perRow ==
  /\ pc = "timestamp"
  /\ LET parsed == ParseTimestamps(df)
         nulls == {i \in 1..Len(parsed.rows) :
                     isnull(parsed.rows[i].cells["Timestamp"])}
     IN /\ report' = [report EXCEPT !.warnings =
                        @ \o [j \in 1..Cardinality(nulls) |->
                                InvalidTimestampWarning]]
        /\ df' = dropna(parsed, <<"Timestamp">>)
  /\ pc' = "redact"
  /\ UNCHANGED <<file, table, rows_before_drop, rows_after_drop, stdout>>
  /\ UNCHANGED <<raised, to_write, outside>>

\* lines 63-67: 1. Handle Timestamp
HandleTimestamp ==
  /\ pc = "timestamp"
  /\ LET parsed == ParseTimestamps(df)
         anynull == \E i \in 1..Len(parsed.rows) :
                       isnull(parsed.rows[i].cells["Timestamp"])
     IN IF anynull
        THEN /\ report' = [report EXCEPT
                             !.warnings = Append(@, InvalidTimestampWarning)]
             /\ df' = dropna(parsed, <<"Timestamp">>)
        ELSE /\ df' = parsed
             /\ UNCHANGED report
  /\ pc' = "redact"
  /\ UNCHANGED <<file, table, rows_before_drop, rows_after_drop, stdout>>
  /\ UNCHANGED <<raised, to_write, outside>>

\* lines 69-73: 2. Handle Redacted Data
HandleRedacted ==
  /\ pc = "redact"
  /\ report' = [report EXCEPT
                  !.redacted_cols_found = @ \o RedactedColumns(df)]
  /\ df' = Redact(df)
  /\ pc' = "coerce"
  /\ UNCHANGED <<file, table, rows_before_drop, rows_after_drop, stdout>>
  /\ UNCHANGED <<raised, to_write, outside>>

\* lines 75-79: 3. Coerce numeric-like object columns to numeric
CoerceNumeric ==
  /\ pc = "coerce"
  /\ df' = Coerce(df)
  /\ pc' = "drop"
  /\ UNCHANGED <<file, report, table, rows_before_drop, rows_after_drop, stdout>>
  /\ UNCHANGED <<raised, to_write, outside>>

\* Step 4 taking rows_before_drop from the rows read, before step 1.
DropMissingCore_fromInput ==
  /\ pc = "drop"
  /\ LET after == dropna(df, CORE_COLUMNS)
         before == Len(file.rows)
     IN /\ rows_before_drop' = before
        /\ rows_after_drop' = Len(after.rows)
        /\ df' = after
        /\ report' =
             IF before > Len(after.rows)
             THEN [report EXCEPT !.warnings =
                     Append(@, DroppedRowsWarning(before - Len(after.rows)))]
             ELSE report
  /\ pc' = "final"
  /\ UNCHANGED <<file, table, stdout>>
  /\ UNCHANGED <<raised, to_write, outside>>

\* lines 81-86: 4. Handle Missing Data in Core Columns
DropMissingCore ==
  /\ pc = "drop"
  /\ LET after == dropna(df, CORE_COLUMNS)
     IN /\ rows_before_drop' = Len(df.rows)
        /\ rows_after_drop' = Len(after.rows)
        /\ df' = after
        /\ report' =
             IF Len(df.rows) > Len(after.rows)
             THEN [report EXCEPT !.warnings =
                     Append(@, DroppedRowsWarning(Len(df.rows) - Len(after.rows)))]
             ELSE report
  /\ pc' = "final"
  /\ UNCHANGED <<file, table, stdout>>
  /\ UNCHANGED <<raised, to_write, outside>>

\* Lines 88-90 reporting failure for a frame without rows.
FinalReport_emptyIsFailure ==
  /\ pc = "final"
  /\ LET found == discover_subsystems(df.columns)
         r == [report EXCEPT !.subsystems_found = found[1],
                             !.payloads_found = found[2],
                             !.status = IF df.rows = <<>> THEN "failure"
                                        ELSE "success"]
     IN /\ report' = r
        /\ to_write' = Writes(PrintedLines(r))
  /\ pc' = "print"
  /\ UNCHANGED <<file, df, table, rows_before_drop, rows_after_drop, stdout>>
  /\ UNCHANGED <<raised, outside>>

\* lines 88-90: Final Report Generation; the print calls of lines 92-96 are
\* then due, each a write of its text and a write of the newline.
FinalReport ==
  /\ pc = "final"
  /\ LET found == discover_subsystems(df.columns)
         r == [report EXCEPT !.subsystems_found = found[1],
                             !.payloads_found = found[2],
                             !.status = "success"]
     IN /\ report' = r
        /\ to_write' = Writes(PrintedLines(r))
  /\ pc' = "print"
  /\ UNCHANGED <<file, df, table, rows_before_drop, rows_after_drop, stdout>>
  /\ UNCHANGED <<raised, outside>>

\* lines 92-96: one write of a print call on sys.stdout.
PrintWrite ==
  /\ pc = "print"
  /\ to_write # <<>>
  /\ stdout' = Append(stdout, Head(to_write))
  /\ to_write' = Tail(to_write)
  /\ UNCHANGED <<file, pc, df, report, table, rows_before_drop,
                 rows_after_drop>>
  /\ UNCHANGED <<raised, outside>>

\* line 98: return df, report
ReturnTable ==
  /\ pc = "print"
  /\ to_write = <<>>
  /\ table' = <<df>>
  /\ pc' = "done"
  /\ UNCHANGED <<file, df, report, rows_before_drop, rows_after_drop, stdout>>
  /\ UNCHANGED <<raised, to_write, outside>>

\* line 92 when standard output is closed: the report is complete, the
\* first print raises ValueError and nothing in the function catches it.
FinalReportPrintRaises ==
  /\ pc = "print"
  /\ to_write = Writes(PrintedLines(report))
  /\ raised' = Append(raised, "ValueError")
  /\ pc' = "raised"
  /\ UNCHANGED <<file, df, report, table, rows_before_drop, rows_after_drop,
                 stdout, to_write, outside>>

Next ==
  \/ ReadCsv
  \/ ReadCsvFileNotFound
  \/ ReadCsvException
  \/ ValidateCoreColumns
  \/ HandleTimestamp
  \/ HandleRedacted
  \/ CoerceNumeric
  \/ DropMissingCore
  \/ FinalReport
  \/ PrintWrite
  \/ ReturnTable
  \/ FinalReportPrintRaises

Spec == Init /\ [][Next]_vars

\* --------------------------------------------------------- re-validation
\* The text to_csv writes for a float.
FormatFloat(n) ==
  CASE n = 42 -> NumberText
    [] n = 0 - 999 -> SentinelText

\* The text to_csv writes for a cell; a missing value is written empty.
CellText(c) ==
  CASE c.k = "datetime" -> c.s
    [] c.k = "float" -> FormatFloat(c.n)
    [] c.k = "str" -> c.s
    [] OTHER -> EmptyText

\* df.to_csv(index=False): the table as a file.
to_csv(d) ==
  [status |-> "ok",
   header |-> d.columns,
   rows   |-> [i \in 1..Len(d.rows) |->
                 [c \in Range(d.columns) |-> CellText(d.rows[i].cells[c])]]]

\* The returned table is written as text and load_and_validate_data is
\* entered on it (lines 26-45).
Revalidate ==
  /\ pc = "done"
  /\ table # <<>>
  /\ prior = <<>>
  /\ file' = to_csv(table[1])
  /\ prior' = <<Len(table[1].rows)>>
  /\ calls' = calls + 1
  /\ pc' = "read"
  /\ df' = NoFrame
  /\ report' = NewReport
  /\ table' = <<>>
  /\ rows_before_drop' = 0
  /\ rows_after_drop' = 0
  /\ UNCHANGED <<to_write, stdout, raised, d_columns, d_found, history, hosts,
                 sim>>

NextRevalidate == Next \/ Revalidate

SpecRevalidate == Init /\ [][NextRevalidate]_vars

\* ------------------------------------------------- discover_subsystems alone
\* The longest list of column names handed to discover_subsystems.
MaxColumns == 3

\* The column names discover_subsystems is called with.
DiscoverNames ==
  {"Timestamp", "POS_Latitude_deg", "GNC_Roll_deg", "GNC_Pitch_deg",
   "PL_GMTI_Status", "PL_EOIR_Status", "COMM_TCDL_Margin_dB", "gnc_roll_deg"}

ColumnLists == UNION {[1..n -> DiscoverNames] : n \in 0..MaxColumns}

\* A call of discover_subsystems(df_columns) outside the pipeline.
InitDiscover ==
  /\ d_columns \in ColumnLists
  /\ d_found = <<>>
  /\ pc = "d_call"
  /\ file = MissingFile
  /\ df = NoFrame
  /\ report = NewReport
  /\ table = <<>>
  /\ rows_before_drop = 0
  /\ rows_after_drop = 0
  /\ to_write = <<>>
  /\ stdout = <<>>
  /\ raised = <<>>
  /\ prior = <<>>
  /\ calls = 1
  /\ history = <<>>
  /\ InitHosts
  /\ InitLayout

Discover ==
  /\ pc = "d_call"
  /\ d_found' = discover_subsystems(d_columns)
  /\ pc' = "d_done"
  /\ UNCHANGED <<file, df, report, table, rows_before_drop, rows_after_drop,
                 to_write, stdout, raised, prior, calls, d_columns, history,
                 hosts, sim>>

NextDiscover == Discover

SpecDiscover == InitDiscover /\ [][NextDiscover]_vars

\* ------------------------------------------------- successive invocations
\* The most invocations of load_and_validate_data in one run.
MaxCalls == 3

\* The inputs of the successive invocations: a missing path, a stream that
\* cannot be parsed, a header lacking core columns, a clean file with a payload column, a file with a
\* redacted cell and an invalid timestamp, a file with an empty core cell.
SeqFiles ==
  {MissingFile,
   GarbageFile,
   FileWith(<<"Timestamp", "POS_Latitude_deg">>, 1, <<>>),
   FileWith(Append(CORE_COLUMNS, "PL_GMTI_Status"), 1, <<>>),
   FileWith(Append(CORE_COLUMNS, "GNC_Roll_deg"), 2,
            (<<1, "GNC_Roll_deg">> :> SentinelText)
              @@ (<<2, "Timestamp">> :> InvalidTimestampText)),
   FileWith(CORE_COLUMNS, 2, (<<1, "POS_Altitude_ft">> :> EmptyText))}

InitSeq ==
  /\ file \in SeqFiles
  /\ pc = "read"
  /\ df = NoFrame
  /\ report = NewReport
  /\ table = <<>>
  /\ rows_before_drop = 0
  /\ rows_after_drop = 0
  /\ to_write = <<>>
  /\ stdout = <<>>
  /\ raised = <<>>
  /\ prior = <<>>
  /\ calls = 1
  /\ d_columns = <<>>
  /\ d_found = <<>>
  /\ history = <<>>
  /\ InitHosts
  /\ InitLayout

\* An entry of load_and_validate_data that goes on with the report
\* dictionary of the preceding invocation.
CallAgain_sharedReport ==
  /\ pc \in {"done", "raised"}
  /\ calls < MaxCalls
  /\ \E f \in SeqFiles : file' = f
  /\ history' = IF pc = "done"
                THEN Append(history,
                            [file |-> file, table |-> table, report |-> report])
                ELSE history
  /\ calls' = calls + 1
  /\ pc' = "read"
  /\ df' = NoFrame
  /\ report' = [report EXCEPT !.status = "failure"]
  /\ table' = <<>>
  /\ rows_before_drop' = 0
  /\ rows_after_drop' = 0
  /\ to_write' = <<>>
  /\ UNCHANGED <<stdout, raised, prior, d_columns, d_found, hosts, sim>>

\* The caller invokes load_and_validate_data again, after a return or an
\* exception: lines 26-45, the locals and the report dictionary are new.
CallAgain ==
  /\ pc \in {"done", "raised"}
  /\ calls < MaxCalls
  /\ \E f \in SeqFiles : file' = f
  /\ history' = IF pc = "done"
                THEN Append(history,
                            [file |-> file, table |-> table, report |-> report])
                ELSE history
  /\ calls' = calls + 1
  /\ pc' = "read"
  /\ df' = NoFrame
  /\ report' = NewReport
  /\ table' = <<>>
  /\ rows_before_drop' = 0
  /\ rows_after_drop' = 0
  /\ to_write' = <<>>
  /\ UNCHANGED <<stdout, raised, prior, d_columns, d_found, hosts, sim>>

NextSeq == Next \/ CallAgain

SpecSeq == InitSeq /\ [][NextSeq]_vars

\* ------------------------------------------------- concurrent invocations
\* The locals of the invocation that is running, and the handler it runs in.
Locals ==
  [file |-> file, pc |-> pc, df |-> df, report |-> report, table |-> table,
   rows_before_drop |-> rows_before_drop, rows_after_drop |-> rows_after_drop,
   to_write |-> to_write, caller |-> caller]

\* A second invocation at its entry on input f (lines 26-45).
Entered(f) ==
  [file |-> f, pc |-> "read", df |-> NoFrame, report |-> NewReport,
   table |-> <<>>, rows_before_drop |-> 0, rows_after_drop |-> 0,
   to_write |-> <<>>, caller |-> ""]

\* Two invocations on independent inputs, started by a host that serves two
\* uploads at once.
InitPar ==
  /\ file \in SeqFiles
  /\ pc = "read"
  /\ df = NoFrame
  /\ report = NewReport
  /\ table = <<>>
  /\ rows_before_drop = 0
  /\ rows_after_drop = 0
  /\ to_write = <<>>
  /\ stdout = <<>>
  /\ raised = <<>>
  /\ prior = <<>>
  /\ calls = 2
  /\ d_columns = <<>>
  /\ d_found = <<>>
  /\ history = <<>>
  /\ \E g \in SeqFiles : other = Entered(g)
  /\ caller = ""
  /\ store = [a \in WebApps |-> <<>>]
  /\ self_df = <<>>
  /\ upload_status = ""
  /\ InitLayout

\* The scheduler suspends the running invocation and resumes the other one:
\* each has its own filepath, df, report and row counts (lines 26-98 assign
\* locals only); standard output is the one channel they share. A thread
\* whose handler has returned has ended and is not resumed.
ContextSwitch ==
  /\ other.pc # "none"
  /\ file' = other.file
  /\ pc' = other.pc
  /\ df' = other.df
  /\ report' = other.report
  /\ table' = other.table
  /\ rows_before_drop' = other.rows_before_drop
  /\ rows_after_drop' = other.rows_after_drop
  /\ to_write' = other.to_write
  /\ caller' = other.caller
  /\ other' = IF pc = "handled" THEN NoInvocation ELSE Locals
  /\ UNCHANGED <<stdout, raised, prior, calls, d_columns, d_found, history,
                 store, self_df, upload_status, sim>>

NextPar == Next \/ ContextSwitch

SpecPar == InitPar /\ [][NextPar]_vars

\* ------------------------------------------------------------ the callers
\* The milliseconds since 1970-01-01 of an instant, as to_json writes them
\* (the nanoseconds divided by 10^6, truncated toward zero).
EpochMilliseconds(s) ==
  CASE s = ValidTimestampText -> "1704110400000"
    [] s = EpochPlusNanoseconds(42) -> "0"
    [] s = EpochPlusNanoseconds(0 - 999) -> "0"

\* The text df.to_json writes for a cell: a timestamp as epoch milliseconds,
\* a missing value as null.
JsonCell(c) ==
  CASE c.k = "datetime" -> EpochMilliseconds(c.s)
    [] c.k = "float" -> FormatFloat(c.n)
    [] c.k = "str" -> "\"" \o c.s \o "\""
    [] OTHER -> "null"

\* df.to_json(orient='split')
to_json(d) ==
  [columns |-> d.columns,
   index   |-> [i \in 1..Len(d.rows) |-> d.rows[i].idx],
   data    |-> [i \in 1..Len(d.rows) |->
                  [j \in 1..Len(d.columns) |->
                     JsonCell(d.rows[i].cells[d.columns[j]])]]]

\* df.empty
df_empty(d) == d.rows = <<>>

\* The most invocations of load_and_validate_data the callers make, and the
\* most writes on standard output (those of a whole report of four lines)
\* after which they still accept a file.
MaxUploads == 2
MaxOutput == 8

\* The files the user uploads or opens: bytes that are not text, an empty
\* text, a header lacking core columns, the core header without any row, a
\* clean one-row file.
UploadFiles ==
  {GarbageFile,
   FileWith(<<>>, 0, <<>>),
   FileWith(<<"Timestamp", "POS_Latitude_deg">>, 1, <<>>),
   FileWith(CORE_COLUMNS, 0, <<>>),
   FileWith(CORE_COLUMNS, 1, <<>>)}

\* The programs are running and no file was processed yet.
InitUpload ==
  /\ file = MissingFile
  /\ pc = "idle"
  /\ df = NoFrame
  /\ report = NewReport
  /\ table = <<>>
  /\ rows_before_drop = 0
  /\ rows_after_drop = 0
  /\ to_write = <<>>
  /\ stdout = <<>>
  /\ raised = <<>>
  /\ prior = <<>>
  /\ calls = 0
  /\ d_columns = <<>>
  /\ d_found = <<>>
  /\ history = <<>>
  /\ InitHosts
  /\ InitLayout

\* The request of locals l is being served: its handler has not returned.
InFlight(l) == l.pc \notin {"none", "idle", "handled"}

\* The thread of the request with locals l is the one running.
Resume(l) ==
  /\ file' = l.file
  /\ pc' = l.pc
  /\ df' = l.df
  /\ report' = l.report
  /\ table' = l.table
  /\ rows_before_drop' = l.rows_before_drop
  /\ rows_after_drop' = l.rows_after_drop
  /\ to_write' = l.to_write
  /\ caller' = l.caller

\* The locals of the handler of dashboard a for an upload f: at the entry of
\* load_and_validate_data, or, when the bytes are not UTF-8, already in the
\* except branch, decode having raised before the call.
Requested(a, f) ==
  IF f.status = "garbage"
  THEN [NoInvocation EXCEPT !.file = f, !.pc = "handled", !.caller = a]
  ELSE [Entered(f) EXCEPT !.caller = a]

\* The server of dashboard a starts a thread for an upload; it may do so
\* while it serves another upload, whose thread is suspended.
Received(a) ==
  /\ InFlight(Locals) => caller = a /\ ~InFlight(other)
  /\ InFlight(other) => other.caller = a
  /\ \E f \in UploadFiles :
       /\ f.status = "garbage"
            \/ (calls < MaxUploads /\ Len(stdout) <= MaxOutput)
       /\ Resume(Requested(a, f))
       /\ calls' = IF f.status = "garbage" THEN calls ELSE calls + 1
       /\ upload_status' = IF f.status = "garbage" THEN "error"
                           ELSE upload_status
  /\ other' = IF InFlight(Locals) THEN Locals ELSE other
  /\ UNCHANGED <<stdout, raised, prior, d_columns, d_found, history, store,
                 self_df>>

\* app.py lines 226-234: process_upload_and_update_ui with contents, up to
\* the call of load_and_validate_data; the except branch (lines 312-316)
\* empties the cards when decode raises.
AppUploadReceived ==
  /\ Received("app")
  /\ controls' = IF pc' = "handled" THEN FALSE ELSE controls
  /\ UNCHANGED <<is_disabled, btn_label, slider_val, slider_max, speed,
                 n_intervals, pending, at_end_on_play, stopped>>

\* generate_data.py lines 73-80, likewise (except branch: lines 111-113).
GenerateDataUploadReceived ==
  /\ Received("generate_data")
  /\ UNCHANGED sim

\* The upload handler of app.py writing the store whenever a table is
\* returned, as the desktop window does.
AppProcessUpload_storesEmpty ==
  /\ pc \in {"done", "raised"}
  /\ caller = "app"
  /\ IF pc = "raised" \/ table = <<>>
     THEN /\ upload_status' = "error"
          /\ controls' = FALSE
          /\ UNCHANGED <<store, slider_val, slider_max, speed, btn_label>>
     ELSE /\ upload_status' = "Loaded"
          /\ store' = [store EXCEPT !["app"] = <<to_json(table[1])>>]
          /\ controls' = TRUE
          /\ slider_val' = 0
          /\ slider_max' = Len(table[1].rows) - 1
          /\ speed' = 100
          /\ btn_label' = "Play"
  /\ pc' = "handled"
  /\ UNCHANGED <<file, df, report, table, rows_before_drop, rows_after_drop,
                 to_write, stdout, raised, prior, calls, d_columns, d_found,
                 history, other, caller, self_df>>
  /\ UNCHANGED <<is_disabled, n_intervals, pending, at_end_on_play, stopped>>

\* app.py lines 234-316: process_upload_and_update_ui once
\* load_and_validate_data has returned or raised. A table that is None or
\* empty raises ValueError, and the except branch returns no_update for the
\* store and empties the cards; otherwise the store gets the table and the
\* simulation controls are built anew.
AppProcessUpload ==
  /\ pc \in {"done", "raised"}
  /\ caller = "app"
  /\ IF pc = "raised" \/ table = <<>> \/ df_empty(table[1])
     THEN /\ upload_status' = "error"
          /\ controls' = FALSE
          /\ UNCHANGED <<store, slider_val, slider_max, speed, btn_label>>
     ELSE /\ upload_status' = "Loaded"
          /\ store' = [store EXCEPT !["app"] = <<to_json(table[1])>>]
          /\ controls' = TRUE
          /\ slider_val' = 0
          /\ slider_max' = Len(table[1].rows) - 1
          /\ speed' = 100
          /\ btn_label' = "Play"
  /\ pc' = "handled"
  /\ UNCHANGED <<file, df, report, table, rows_before_drop, rows_after_drop,
                 to_write, stdout, raised, prior, calls, d_columns, d_found,
                 history, other, caller, self_df>>
  /\ UNCHANGED <<is_disabled, n_intervals, pending, at_end_on_play, stopped>>

\* generate_data.py lines 80-113: process_upload_and_update_ui once
\* load_and_validate_data has returned or raised.
GenerateDataProcessUpload ==
  /\ pc \in {"done", "raised"}
  /\ caller = "generate_data"
  /\ IF pc = "raised" \/ table = <<>> \/ df_empty(table[1])
     THEN /\ upload_status' = "error"
          /\ UNCHANGED store
     ELSE /\ upload_status' = "Loaded"
          /\ store' = [store EXCEPT
                         !["generate_data"] = <<to_json(table[1])>>]
  /\ pc' = "handled"
  /\ UNCHANGED <<file, df, report, table, rows_before_drop, rows_after_drop,
                 to_write, stdout, raised, prior, calls, d_columns, d_found,
                 history, other, caller, self_df, sim>>

\* The files chosen in the desktop window: those uploaded and a path that
\* does not exist.
ChosenFiles == UploadFiles \cup {MissingFile}

\* desktop_app.py lines 99-102: open_file_dialog with a file chosen, up to
\* the call of load_and_validate_data; the window has one thread.
OpenFileDialogChosen ==
  /\ calls < MaxUploads /\ Len(stdout) <= MaxOutput
  /\ ~InFlight(Locals) /\ ~InFlight(other)
  /\ \E f \in ChosenFiles :
       Resume([Entered(f) EXCEPT !.caller = "desktop_app"])
  /\ calls' = calls + 1
  /\ UNCHANGED <<stdout, raised, prior, d_columns, d_found, history, other,
                 store, self_df, upload_status, sim>>

\* desktop_app.py lines 102-108: open_file_dialog once load_and_validate_data
\* has returned or raised. No try encloses the call: when it raises, line
\* 102 assigns nothing and self.df and the label keep their values.
OpenFileDialog ==
  /\ pc \in {"done", "raised"}
  /\ caller = "desktop_app"
  /\ IF pc = "raised"
     THEN UNCHANGED <<self_df, upload_status>>
     ELSE /\ self_df' = table
          /\ upload_status' = IF table # <<>> THEN "Loaded" ELSE "error"
  /\ pc' = "handled"
  /\ UNCHANGED <<file, df, report, table, rows_before_drop, rows_after_drop,
                 to_write, stdout, raised, prior, calls, d_columns, d_found,
                 history, other, caller, store, sim>>

\* The steps of the requests being served and of the desktop window.
NextUpload ==
  \/ AppUploadReceived
  \/ GenerateDataUploadReceived
  \/ OpenFileDialogChosen
  \/ ReadCsv
  \/ ReadCsvFileNotFound
  \/ ReadCsvException
  \/ ValidateCoreColumns
  \/ HandleTimestamp
  \/ HandleRedacted
  \/ CoerceNumeric
  \/ DropMissingCore
  \/ FinalReport
  \/ PrintWrite
  \/ ReturnTable
  \/ FinalReportPrintRaises
  \/ ContextSwitch
  \/ AppProcessUpload
  \/ GenerateDataProcessUpload
  \/ OpenFileDialog

SpecUpload == InitUpload /\ [][NextUpload]_vars

\* --------------------------------------------------- simulation controls
\* The largest maximum of the time slider (the row count of the table less
\* one), and the value the interval counter is followed up to: the handlers
\* read only whether it is zero.
MaxSlider == 12
MaxTicks == 2

\* Python's None, for a property that has no value.
None == 0 - 1

\* The values of the speed-selector options (app.py lines 298-301).
Speeds == {1, 10, 50, 100, 500}

\* app.py lines 369-389: toggle_simulation, by the component that triggered
\* it ("" for none): the returned disabled, children and color; update is
\* FALSE when it returns no_update for the three of them.
toggle_simulation(triggered, disabled, slider_value, max_value) ==
  IF triggered = ""
  THEN [update |-> TRUE, disabled |-> TRUE, children |-> "Play",
        color |-> "success"]
  ELSE IF triggered = "play-pause-btn"
  THEN IF disabled
       THEN [update |-> TRUE, disabled |-> FALSE, children |-> "Pause",
             color |-> "warning"]
       ELSE [update |-> TRUE, disabled |-> TRUE, children |-> "Play",
             color |-> "success"]
  ELSE IF triggered = "stop-btn"
  THEN [update |-> TRUE, disabled |-> TRUE, children |-> "Play",
        color |-> "success"]
  ELSE [update |-> FALSE, disabled |-> disabled, children |-> "",
        color |-> ""]

\* update_slider without the clamp at max_value.
update_slider_unclamped(triggered, n, current_value, max_value, selected) ==
  IF triggered = "stop-btn" THEN 0
  ELSE IF current_value = None \/ max_value = None THEN 0
  ELSE IF n # None /\ n # 0 /\ selected # None /\ selected # 0
  THEN current_value + selected
  ELSE current_value

\* update_slider that stays where it is instead of going to max_value.
update_slider_stalls(triggered, n, current_value, max_value, selected) ==
  IF triggered = "stop-btn" THEN 0
  ELSE IF current_value = None \/ max_value = None THEN 0
  ELSE IF n # None /\ n # 0 /\ selected # None /\ selected # 0
  THEN IF current_value + selected >= max_value
       THEN current_value
       ELSE current_value + selected
  ELSE current_value

\* app.py lines 394-410: update_slider, by the component that triggered it.
update_slider(triggered, n, current_value, max_value, selected) ==
  IF triggered = "stop-btn" THEN 0
  ELSE IF current_value = None \/ max_value = None THEN 0
  ELSE IF n # None /\ n # 0 /\ selected # None /\ selected # 0
  THEN IF current_value + selected >= max_value
       THEN max_value
       ELSE current_value + selected
  ELSE current_value

\* The dashboard after the upload of a table of slider_max + 1 rows
\* (app.py lines 290-302): slider at 0, speed 100, interval disabled.
InitSim ==
  /\ file = MissingFile
  /\ pc = "idle"
  /\ df = NoFrame
  /\ report = NewReport
  /\ table = <<>>
  /\ rows_before_drop = 0
  /\ rows_after_drop = 0
  /\ to_write = <<>>
  /\ stdout = <<>>
  /\ raised = <<>>
  /\ prior = <<>>
  /\ calls = 0
  /\ d_columns = <<>>
  /\ d_found = <<>>
  /\ history = <<>>
  /\ InitHosts
  /\ controls = TRUE
  /\ is_disabled = TRUE
  /\ btn_label = "Play"
  /\ slider_val = 0
  /\ slider_max \in 0..MaxSlider
  /\ speed = 100
  /\ n_intervals = 0
  /\ pending = {}
  /\ at_end_on_play = FALSE
  /\ stopped = FALSE

\* What no simulation handler touches.
pipeline ==
  <<file, pc, df, report, table, rows_before_drop, rows_after_drop, to_write,
    stdout,
    raised, prior, calls, d_columns, d_found, history, hosts>>

\* A click on play-pause-btn: toggle_simulation runs (lines 377-385);
\* at_end_on_play records that it took the branch of line 380.
PressPlayPause ==
  /\ controls
  /\ LET out == toggle_simulation("play-pause-btn", is_disabled, slider_val,
                                  slider_max)
     IN /\ is_disabled' = IF out.update THEN out.disabled ELSE is_disabled
        /\ btn_label' = IF out.update THEN out.children ELSE btn_label
  /\ at_end_on_play' = (is_disabled /\ slider_val = slider_max)
  /\ stopped' = FALSE
  /\ UNCHANGED <<controls, slider_val, slider_max, speed, n_intervals, pending,
                 pipeline>>

\* A click on stop-btn: it is an Input of both callbacks, which then run as
\* two requests.
PressStop ==
  /\ controls
  /\ pending = {}
  /\ pending' = {"toggle_simulation", "update_slider"}
  /\ stopped' = TRUE
  /\ at_end_on_play' = FALSE
  /\ UNCHANGED <<controls, is_disabled, btn_label, slider_val, slider_max,
                 speed, n_intervals, pipeline>>

\* toggle_simulation triggered by stop-btn (lines 386-387).
ToggleSimulationStop ==
  /\ "toggle_simulation" \in pending
  /\ LET out == toggle_simulation("stop-btn", is_disabled, slider_val,
                                  slider_max)
     IN /\ is_disabled' = IF out.update THEN out.disabled ELSE is_disabled
        /\ btn_label' = IF out.update THEN out.children ELSE btn_label
  /\ pending' = pending \ {"toggle_simulation"}
  /\ UNCHANGED <<controls, slider_val, slider_max, speed, n_intervals,
                 at_end_on_play, stopped, pipeline>>

\* update_slider triggered by stop-btn (lines 396-397).
UpdateSliderStop ==
  /\ "update_slider" \in pending
  /\ slider_val' = update_slider("stop-btn", n_intervals, slider_val,
                                 slider_max, speed)
  /\ pending' = pending \ {"update_slider"}
  /\ UNCHANGED <<controls, is_disabled, btn_label, slider_max, speed,
                 n_intervals, at_end_on_play, stopped, pipeline>>

\* The interval fires (every 200 ms while it is not disabled, line 41) and
\* update_slider runs with the new n_intervals (lines 399-410).
UpdateSliderTick ==
  /\ controls
  /\ ~is_disabled
  /\ n_intervals' = IF n_intervals < MaxTicks THEN n_intervals + 1
                    ELSE n_intervals
  /\ slider_val' = update_slider("sim-interval", n_intervals', slider_val,
                                 slider_max, speed)
  /\ at_end_on_play' = FALSE
  /\ UNCHANGED <<controls, is_disabled, btn_label, slider_max, speed, pending,
                 stopped, pipeline>>

\* The user selects another speed, or clears the selection.
SelectSpeed ==
  /\ controls
  /\ \E v \in (Speeds \cup {None}) \ {speed} : speed' = v
  /\ UNCHANGED <<controls, is_disabled, btn_label, slider_val, slider_max,
                 n_intervals, pending, at_end_on_play, stopped, pipeline>>

NextSim ==
  \/ PressPlayPause
  \/ PressStop
  \/ ToggleSimulationStop
  \/ UpdateSliderStop
  \/ UpdateSliderTick
  \/ SelectSpeed

SpecSim == InitSim /\ [][NextSim]_vars

\* Play was pressed with the slider at any value (where earlier playback or
\* the user's drag left it) and any speed selected.
InitPlay ==
  /\ file = MissingFile
  /\ pc = "idle"
  /\ df = NoFrame
  /\ report = NewReport
  /\ table = <<>>
  /\ rows_before_drop = 0
  /\ rows_after_drop = 0
  /\ to_write = <<>>
  /\ stdout = <<>>
  /\ raised = <<>>
  /\ prior = <<>>
  /\ calls = 0
  /\ d_columns = <<>>
  /\ d_found = <<>>
  /\ history = <<>>
  /\ InitHosts
  /\ controls = TRUE
  /\ is_disabled = FALSE
  /\ btn_label = "Pause"
  /\ slider_max \in 0..MaxSlider
  /\ slider_val \in 0..slider_max
  /\ speed \in Speeds
  /\ n_intervals = 0
  /\ pending = {}
  /\ at_end_on_play = FALSE
  /\ stopped = FALSE

NextPlay == UpdateSliderTick

\* Neither Pause nor Stop is pressed; the interval keeps firing.
SpecPlay == InitPlay /\ [][NextPlay]_vars /\ WF_vars(UpdateSliderTick)

\* ------------------------------------------------- vocabulary of the claims
\* load_and_validate_data has returned.
Returned == pc = "done"

\* The input was read into a frame: a readable stream with a header.
WasRead == file.status = "ok" /\ file.header # <<>>

\* The core columns the header of the input lacks.
LackingCore == {c \in Range(CORE_COLUMNS) : c \notin Range(file.header)}

\* The positions of the input rows, and of those with a parseable Timestamp.
InputRows == 1..Len(file.rows)
ParseableRows == {i \in InputRows : IsDatetimeText(file.rows[i]["Timestamp"])}

\* The input rows the returned table keeps (index label + 1).
KeptRows == {table[1].rows[j].idx + 1 : j \in 1..Len(table[1].rows)}

\* The positions of the warnings with a given text.
WarningsWith(msg) ==
  {j \in 1..Len(report.warnings) : report.warnings[j].msg = msg}

\* Every cell of the input holds its nominal text but the Timestamp cells.
OnlyTimestampAnomalies ==
  \A i \in InputRows : \A c \in Range(file.header) \ {"Timestamp"} :
    file.rows[i][c] = NominalText(c)

\* C1: an input whose header lacks a core column yields None and a failure
\* report whose warnings name every core column the header lacks.
C1_MissingCoreFails ==
  (Returned /\ WasRead /\ LackingCore # {}) =>
    /\ table = <<>>
    /\ report.status = "failure"
    /\ \A c \in LackingCore :
         \E j \in 1..Len(report.warnings) : c \in Range(report.warnings[j].cols)

C1_Witness ==
  /\ Returned /\ WasRead
  /\ Cardinality(LackingCore) >= 2
  /\ Len(file.rows) >= 1
  /\ report.warnings # <<>>

\* C2: a table is returned if and only if the report has status success.
C2_TableIffSuccess ==
  Returned => ((table # <<>>) <=> (report.status = "success"))

C2_Witness ==
  /\ Returned /\ WasRead
  /\ table = <<>>
  /\ report.status = "failure"

\* C3: no row of a returned table has a missing value in a core column, and
\* the Timestamp of every row is a parsed date-time.
C3_CoreComplete ==
  (Returned /\ table # <<>>) =>
    \A j \in 1..Len(table[1].rows) :
      /\ \A c \in Range(CORE_COLUMNS) : ~isnull(table[1].rows[j].cells[c])
      /\ table[1].rows[j].cells["Timestamp"].k = "datetime"

C3_Witness ==
  /\ Returned /\ table # <<>>
  /\ Len(table[1].rows) >= 1
  /\ Len(table[1].rows) < Len(file.rows)
  /\ rows_before_drop > rows_after_drop

\* C4: no cell of a returned table equals the sentinel -999.0.
C4_NoSentinelCell ==
  (Returned /\ table # <<>>) =>
    \A j \in 1..Len(table[1].rows) : \A c \in Range(table[1].columns) :
      table[1].rows[j].cells[c] # Num(REDACTED_DATA_MARKER)

\* The columns of the input with at least one cell equal to -999.0.
SentinelColumns ==
  {c \in Range(file.header) : \E i \in InputRows : file.rows[i][c] = SentinelText}

\* C5: redacted_cols_found lists each input column with a sentinel cell
\* exactly once, and no other column.
C5_RedactedColumnsListed ==
  (Returned /\ report.status = "success") =>
    /\ \A c \in SentinelColumns :
         Cardinality({j \in 1..Len(report.redacted_cols_found) :
                        report.redacted_cols_found[j] = c}) = 1
    /\ Range(report.redacted_cols_found) \subseteq SentinelColumns

\* C6: an input without anomalies yields a table with as many rows as the
\* input and a success report without warnings or redacted columns.
C6_CleanInput ==
  (Returned /\ WasRead /\ LackingCore = {} /\ OnlyTimestampAnomalies
     /\ ParseableRows = InputRows) =>
    /\ table # <<>>
    /\ Len(table[1].rows) = Len(file.rows)
    /\ report.status = "success"
    /\ report.warnings = <<>>
    /\ report.redacted_cols_found = <<>>

C6_Witness ==
  /\ Returned /\ WasRead /\ LackingCore = {} /\ OnlyTimestampAnomalies
  /\ ParseableRows = InputRows
  /\ Len(file.rows) >= 2
  /\ Len(file.header) > Len(CORE_COLUMNS)

\* C7: n rows of which k >= 1 have an unparseable Timestamp, no other
\* anomaly: the table has n - k rows, the status is success and the warnings
\* are exactly the one invalid-timestamp warning.
C7_InvalidTimestamps ==
  (Returned /\ WasRead /\ LackingCore = {} /\ OnlyTimestampAnomalies
     /\ ParseableRows # InputRows) =>
    /\ table # <<>>
    /\ Len(table[1].rows) = Cardinality(ParseableRows)
    /\ report.status = "success"
    /\ report.warnings = <<InvalidTimestampWarning>>

C7_Witness ==
  /\ Returned /\ WasRead /\ LackingCore = {} /\ OnlyTimestampAnomalies
  /\ Cardinality(InputRows \ ParseableRows) >= 2
  /\ table # <<>>

\* C8: the dropped-rows warning is recorded exactly when core-completeness
\* enforcement removed a row, once, and its count is the number of rows with
\* a parseable Timestamp that the returned table lacks.
C8_DroppedRowsCount ==
  (Returned /\ table # <<>>) =>
    LET removed == ParseableRows \ KeptRows
        ws == WarningsWith("Dropped rows due to missing core data.")
    IN /\ (removed = {}) <=> (ws = {})
       /\ Cardinality(ws) <= 1
       /\ \A j \in ws : report.warnings[j].n = Cardinality(removed)

C8_Witness ==
  /\ Returned /\ table # <<>>
  /\ ParseableRows # InputRows
  /\ ParseableRows \ KeptRows # {}
  /\ WarningsWith("Dropped rows due to missing core data.") # {}

\* C9: a row with a parseable Timestamp and a core cell equal to -999.0 is
\* absent from the returned table and counted in the dropped-rows warning.
C9_RedactedCoreRowDropped ==
  (Returned /\ table # <<>>) =>
    \A i \in ParseableRows :
      (\E c \in Range(CORE_COLUMNS) \ {"Timestamp"} :
          file.rows[i][c] = SentinelText) =>
        /\ i \notin KeptRows
        /\ \E j \in WarningsWith("Dropped rows due to missing core data.") :
             report.warnings[j].n >= 1

\* C10: a readable input with the four core columns yields status success
\* and a table, also when every row is dropped.
C10_AnomaliesNotFatal ==
  (Returned /\ WasRead /\ LackingCore = {}) =>
    /\ report.status = "success"
    /\ table # <<>>

C10_Witness ==
  /\ Returned /\ WasRead /\ LackingCore = {}
  /\ Len(file.rows) >= 2
  /\ table # <<>>
  /\ table[1].rows = <<>>
  /\ Len(report.warnings) >= 2

\* The input cells other than Timestamp cells that hold a given text.
CellsWith(text) ==
  {<<i, c>> \in InputRows \X (Range(file.header) \ {"Timestamp"}) :
     file.rows[i][c] = text}

\* C11: every kind of non-fatal anomaly the input contains is reflected in
\* the report of a successful validation: an invalid timestamp by the
\* invalid-timestamp warning, a sentinel cell (here: one in a row with a
\* parseable Timestamp) by an entry of redacted_cols_found, a non-numeric
\* cell by some warning or redacted column, a row missing core data by some
\* warning.
C11_AnomaliesReported ==
  (Returned /\ report.status = "success") =>
    /\ (ParseableRows # InputRows) =>
         WarningsWith("Some timestamps were invalid and have been removed.") # {}
    /\ (\E p \in CellsWith(SentinelText) : p[1] \in ParseableRows) =>
         report.redacted_cols_found # <<>>
    /\ (CellsWith(WordText) # {}) =>
         (report.warnings # <<>> \/ report.redacted_cols_found # <<>>)
    /\ (\E p \in CellsWith(EmptyText) : p[2] \in Range(CORE_COLUMNS)) =>
         report.warnings # <<>>

\* C12: a failure raised while processing the frame ends in a return of
\* None with a failure report that carries a warning; no exception reaches
\* the caller.
C12_FailureIsReturned ==
  (raised # <<>>) =>
    /\ pc = "done"
    /\ table = <<>>
    /\ report.status = "failure"
    /\ report.warnings # <<>>

\* C13: a source that cannot be read or parsed yields None and a failure
\* report with exactly one warning, the read-failure message, and empty
\* subsystem, payload and redacted-column lists.
C13_ReadFailure ==
  (Returned /\ ~WasRead) =>
    /\ table = <<>>
    /\ report.status = "failure"
    /\ \/ report.warnings = <<FileNotFoundWarning>>
       \/ report.warnings = <<ReadFailedWarning>>
    /\ (file.status = "missing") <=> (report.warnings = <<FileNotFoundWarning>>)
    /\ report.subsystems_found = <<>>
    /\ report.payloads_found = <<>>
    /\ report.redacted_cols_found = <<>>

C13_Witness ==
  /\ Returned
  /\ file.status = "garbage"
  /\ report.warnings = <<ReadFailedWarning>>

\* C14: validating the re-serialized table of a successful validation
\* succeeds with the same row count, an empty redacted_cols_found and
\* neither an invalid-timestamp nor a dropped-rows warning.
C14_Idempotent ==
  (Returned /\ prior # <<>>) =>
    /\ report.status = "success"
    /\ table # <<>>
    /\ Len(table[1].rows) = prior[1]
    /\ report.redacted_cols_found = <<>>
    /\ report.warnings = <<>>

\* The non-timestamp columns of the input whose cells are all non-numeric text.
TextColumns ==
  {c \in Range(file.header) \ {"Timestamp"} :
     /\ InputRows # {}
     /\ \A i \in InputRows : file.rows[i][c] = WordText}

\* C15: a non-timestamp column whose cells are all non-numeric text is left
\* as text: in the table of a successful validation its cells hold their
\* original text.
C15_TextColumnKept ==
  (Returned /\ table # <<>>) =>
    \A c \in TextColumns : \A j \in 1..Len(table[1].rows) :
      table[1].rows[j].cells[c] = Str(file.rows[table[1].rows[j].idx + 1][c])

\* discover_subsystems has returned d_found for d_columns.
Discovered == pc = "d_done"

\* The columns of a payload group: names of the form PL_<NAME>_...
PayloadColumns ==
  {c \in Range(d_columns) :
     LET cs == Chars(c)
     IN /\ Len(cs) >= 5
        /\ SubSeq(cs, 1, 3) = <<"P", "L", "_">>
        /\ \E k \in 5..Len(cs) : cs[k] = "_"}

\* The identifier PL_<NAME> of a payload column.
PayloadGroup(c) ==
  LET cs == Chars(c)
      k == CHOOSE k \in 5..Len(cs) :
             cs[k] = "_" /\ \A j \in 4..(k - 1) : cs[j] # "_"
  IN Join(SubSeq(cs, 1, k - 1))

\* C16: a column of a payload group PL_<NAME>_... puts PL_<NAME> in the
\* payload list and nothing in the subsystem list, and the payload list has
\* one identifier for each payload group.
C16_PayloadGroups ==
  Discovered =>
    /\ \A c \in PayloadColumns :
         /\ PayloadGroup(c) \in Range(d_found[2])
         /\ PayloadGroup(c) \notin Range(d_found[1])
    /\ Len(d_found[2]) = Cardinality({PayloadGroup(c) : c \in PayloadColumns})

\* C17: columns prefixed COMM_ or POS_ contribute to neither list of
\* discover_subsystems, and the subsystems_found of a successful validation
\* holds neither COMM nor POS.
C17_CommPosExcluded ==
  /\ Discovered =>
       {"COMM", "POS"} \cap (Range(d_found[1]) \cup Range(d_found[2])) = {}
  /\ (Returned /\ report.status = "success") =>
       {"COMM", "POS"} \cap Range(report.subsystems_found) = {}

\* The lengths n for which a name is n characters of [A-Z0-9] followed by "_".
MatchLengths(c) ==
  LET cs == Chars(c)
  IN {n \in 1..(Len(cs) - 1) :
        /\ \A j \in 1..n : cs[j] \in Range(UpperDigits)
        /\ cs[n + 1] = "_"}

\* The identifiers of the names of d_columns that match the pattern.
MatchedIds ==
  UNION {{Join(SubSeq(Chars(c), 1, n)) : n \in MatchLengths(c)} :
           c \in Range(d_columns)}

\* C18: the prefix of a matching column name that does not start with PL is
\* listed as a subsystem and not as a payload, and a name that does not match
\* the pattern contributes to neither list.
C18_SubsystemPrefixes ==
  Discovered =>
    /\ \A c \in Range(d_columns) : \A n \in MatchLengths(c) :
         LET p == SubSeq(Chars(c), 1, n)
         IN ~(n >= 2 /\ p[1] = "P" /\ p[2] = "L") =>
              /\ Join(p) \in Range(d_found[1])
              /\ Join(p) \notin Range(d_found[2])
    /\ Range(d_found[1]) \cup Range(d_found[2]) \subseteq MatchedIds

C18_Witness ==
  /\ Discovered
  /\ Range(d_columns) = {"GNC_Roll_deg", "gnc_roll_deg", "Timestamp"}
  /\ d_found = << <<"GNC">>, <<>> >>

\* The list l strictly ascending in the order of Python strings.
StrictlyAscending(l) ==
  \A i \in 1..(Len(l) - 1) : LexLess(Chars(l[i]), Chars(l[i + 1]))

\* C19: discover_subsystems returns the same two lists for every permutation
\* and every duplication of the same names, each list is strictly ascending
\* and no identifier is in both lists.
C19_SetDeterministic ==
  Discovered =>
    /\ \A f \in Permutations(1..Len(d_columns)) :
         discover_subsystems([i \in 1..Len(d_columns) |-> d_columns[f[i]]])
           = d_found
    /\ \A i \in 1..Len(d_columns) :
         discover_subsystems(Append(d_columns, d_columns[i])) = d_found
    /\ StrictlyAscending(d_found[1])
    /\ StrictlyAscending(d_found[2])
    /\ Range(d_found[1]) \cap Range(d_found[2]) = {}

C19_Witness ==
  /\ Discovered
  /\ d_columns = <<"POS_Latitude_deg", "PL_GMTI_Status", "GNC_Roll_deg">>
  /\ d_found = << <<"GNC", "POS">>, <<"PL">> >>

\* C20: the table and the report an invocation returns depend on its input
\* only: they equal those of every earlier invocation on the same input, the
\* first one included, whatever was validated in between.
C20_NoStateBetweenCalls ==
  Returned =>
    \A k \in 1..Len(history) :
      (history[k].file = file) =>
        /\ history[k].table = table
        /\ history[k].report = report

C20_Witness ==
  /\ Returned
  /\ Len(history) = 2
  /\ history[1].file = file
  /\ history[2].file # file
  /\ history[2].report.warnings # <<>>
  /\ history[2].report.redacted_cols_found # <<>>
  /\ table # <<>>
  /\ report.warnings = <<>>
  /\ report.payloads_found # <<>>

\* The input columns read_csv gives a numeric type: every cell is a number
\* or empty, and there is at least one row.
FloatColumns ==
  {c \in Range(file.header) :
     /\ InputRows # {}
     /\ \A i \in InputRows : file.rows[i][c] \in {NumberText, SentinelText, EmptyText}}

\* The input rows with a parseable Timestamp and a core value that is missing
\* after redaction and coercion: an empty or non-numeric text, or the
\* sentinel in a numeric column.
MissingCoreRows ==
  {i \in ParseableRows :
     \E c \in Range(CORE_COLUMNS) \ {"Timestamp"} :
       \/ file.rows[i][c] \in {EmptyText, WordText}
       \/ file.rows[i][c] = SentinelText /\ c \in FloatColumns}

\* C29: the rows of a returned table are input rows in their original order,
\* none twice; its columns are the input's columns; its row count is the
\* input's minus the rows without a parseable Timestamp minus the remaining
\* rows with a core value missing after redaction and coercion.
C29_RowsSubsequence ==
  (Returned /\ table # <<>>) =>
    LET rows == table[1].rows
    IN /\ \A j \in 1..Len(rows) : rows[j].idx + 1 \in InputRows
       /\ \A j, k \in 1..Len(rows) : j < k => rows[j].idx < rows[k].idx
       /\ Range(table[1].columns) = Range(file.header)
       /\ Len(rows) = Len(file.rows)
                        - Cardinality(InputRows \ ParseableRows)
                        - Cardinality(MissingCoreRows)

C29_Witness ==
  /\ Returned /\ table # <<>>
  /\ Len(file.rows) = 2
  /\ Len(file.header) > Len(CORE_COLUMNS)
  /\ Len(table[1].rows) = 1
  /\ table[1].rows[1].idx = 1
  /\ MissingCoreRows = {1}

\* C22: load_and_validate_data writes to no external channel, on success and
\* on failure: nothing is ever written to standard output. (CORE_COLUMNS and
\* REDACTED_DATA_MARKER are only read: no action assigns them.)
C22_NoOutput ==
  Returned => stdout = <<>>

\* What each input of the successive invocations gives when run alone.
RunAlone == [f \in SeqFiles |-> load_and_validate_data(f)]

\* The number of writes an invocation with locals l has made on standard
\* output.
Written(l) ==
  IF l.pc = "print"
  THEN Len(Writes(PrintedLines(l.report))) - Len(l.to_write)
  ELSE IF l.pc = "done" /\ l.table # <<>>
  THEN Len(Writes(PrintedLines(l.report)))
  ELSE 0

\* Each of two invocations whose steps interleave has the table and the
\* report it returns when run alone.
ResultsAsAlone ==
  /\ pc = "done" =>
       /\ table = RunAlone[file].table
       /\ report = RunAlone[file].report
  /\ other.pc = "done" =>
       /\ other.table = RunAlone[other.file].table
       /\ other.report = RunAlone[other.file].report

\* C21: of two invocations whose steps interleave, each returns the table
\* and the report it returns when run alone, and neither writes what the
\* other has written: standard output holds the writes of one of them at
\* most.
C21_Interleaved ==
  /\ ResultsAsAlone
  /\ Written(Locals) = 0 \/ Written(other) = 0

\* The request whose thread is running has been answered.
Handled == pc = "handled"

\* C23: when a caller has processed a new file it holds the table of that
\* file or none: the web dashboards in their dataframe-store, the desktop
\* window in self.df; it holds none when the new file yields no table.
C23_PreviousTableDiscarded ==
  Handled =>
    /\ \A a \in WebApps :
         (caller = a) =>
           IF table = <<>>
           THEN store[a] = <<>>
           ELSE store[a] \in {<<>>, <<to_json(table[1])>>}
    /\ (caller = "desktop_app") => self_df = table

\* What the store holds after a successful validation, of at least one row,
\* of an uploaded file.
ValidStores ==
  {<<to_json(load_and_validate_data(f).table[1])>> :
     f \in {g \in UploadFiles :
              LET res == load_and_validate_data(g)
              IN /\ res.report.status = "success"
                 /\ res.table # <<>>
                 /\ Len(res.table[1].rows) >= 1}}

\* C28: the dataframe-store of a web dashboard is unset or holds the table,
\* of at least one row, of a successful validation of an uploaded file; an
\* upload whose table is absent or empty is reported as an error.
C28_StoreHoldsValidTable ==
  /\ \A a \in WebApps : store[a] = <<>> \/ store[a] \in ValidStores
  /\ (caller \in WebApps /\ Handled
        /\ (table = <<>> \/ table[1].rows = <<>>)) =>
       upload_status = "error"

C28_Witness ==
  /\ caller = "app" /\ Handled
  /\ table # <<>> /\ table[1].rows = <<>>
  /\ report.status = "success"
  /\ upload_status = "error"
  /\ store["app"] # <<>>
  /\ \E i \in 1..(Len(stdout) - 1) : stdout[i] # "\n" /\ stdout[i + 1] # "\n"

\* C24: the first interval tick after a Play pressed with the slider at its
\* maximum moves the slider to the start of the flight.
C24_RestartAtEnd ==
  [][(UpdateSliderTick /\ at_end_on_play /\ slider_max > 0
        /\ speed \in Speeds) => slider_val' = 0]_vars

\* C25: once both callbacks of a Stop have run, and until Play is pressed,
\* the slider is at 0, the interval is disabled and the button reads Play.
C25_StopResets ==
  (stopped /\ pending = {}) =>
    /\ slider_val = 0
    /\ is_disabled
    /\ btn_label = "Play"

\* C26: the time slider value is an integer from 0 to the slider maximum.
C26_SliderInRange ==
  controls => slider_val \in 0..slider_max

C26_Witness ==
  /\ slider_max = 12
  /\ slider_val = 12
  /\ speed = 10
  /\ ~is_disabled
  /\ n_intervals >= 2

\* C27: while playing, the slider reaches its maximum after finitely many
\* interval ticks and stays there on every later tick.
C27_ReachesEnd ==
  <>[](slider_val = slider_max)

C27_Witness ==
  /\ slider_max = 12
  /\ slider_val = slider_max
  /\ speed = 1
  /\ ~is_disabled
  /\ n_intervals >= 2
====
